---- MODULE Spec2Model ----
(***************************************************************************)
(* railflush: a sequential batch client that, for every configured         *)
(* service id, resolves the latest deployment through a GraphQL query and  *)
(* restarts it through a GraphQL mutation (src/main.go).                   *)
(*                                                                         *)
(* Strings that the program inspects character by character (SERVICE_IDS   *)
(* and the service ids parsed from it) are sequences of one-character      *)
(* strings; strings that are only compared with "" or passed through       *)
(* (token, project id, environment id, deployment id) are TLA+ strings.    *)
(* An error value is a sequence of message parts, outermost wrapper first; *)
(* the empty sequence is Go's nil error.                                   *)
(* The elapsed time printed in the summary is not modelled.                *)
(***************************************************************************)
EXTENDS Integers, Sequences, FiniteSets, TLC

VARIABLES
    env,           \* the process environment (os.Getenv)
    pc,            \* position of main: start, loop, resolving, restarting, summary, done
    cfg,           \* the Config returned by loadConfig
    cfgErr,        \* the error returned by loadConfig (<<>> is nil)
    idx,           \* index of the range loop over cfg.ServiceIDs (1-based)
    deploymentID,  \* main's local deploymentID of the current iteration
    succeeded,     \* main's counter
    failed,        \* main's counter
    log,           \* lines written to stdout and stderr, in order
    calls,         \* HTTP requests handed to client.Do, in order, each with the list
                   \* position it is for and the number of lines written before it
    resps,         \* what client.Do returned: resps[k] answers calls[k]
    exitCode       \* the process exit status, meaningful once pc = "done"

vars == <<env, pc, cfg, cfgErr, idx, deploymentID, succeeded, failed, log, calls,
          resps, exitCode>>

----------------------------------------------------------------------------
(* Bounds *)

MaxServices == 2   \* longest generated SERVICE_IDS list of the run specification
MaxRawLen   == 4   \* longest generated SERVICE_IDS string of the parsing specification
MaxEdges    == 2   \* most deployment edges in a generated response
MaxErrors   == 2   \* most entries of a generated errors array

----------------------------------------------------------------------------
(* Character strings *)

Comma == ","

WhiteSpace == {" ", "\t"}

RECURSIVE SeqsUpTo(_, _)
SeqsUpTo(S, n) ==
    IF n = 0 THEN {<<>>}
    ELSE LET shorter == SeqsUpTo(S, n - 1)
         IN  shorter \cup {Append(s, c) : s \in {t \in shorter : Len(t) = n - 1}, c \in S}

\* strings.Split(raw, ","): the fields between the separators, empty ones included
RECURSIVE Split(_)
Split(s) ==
    IF \A i \in 1..Len(s) : s[i] # Comma
    THEN <<s>>
    ELSE LET i == CHOOSE k \in 1..Len(s) : s[k] = Comma /\ \A j \in 1..(k - 1) : s[j] # Comma
         IN  <<SubSeq(s, 1, i - 1)>> \o Split(SubSeq(s, i + 1, Len(s)))

RECURSIVE TrimLeft(_)
TrimLeft(s) ==
    IF s # <<>> /\ Head(s) \in WhiteSpace THEN TrimLeft(Tail(s)) ELSE s

RECURSIVE TrimRight(_)
TrimRight(s) ==
    IF s # <<>> /\ s[Len(s)] \in WhiteSpace THEN TrimRight(SubSeq(s, 1, Len(s) - 1)) ELSE s

\* Variant of TrimSpace that forgets the trailing white space.
TrimSpaceLeftOnly(s) == TrimLeft(s)

\* strings.TrimSpace
TrimSpace(s) == TrimRight(TrimLeft(s))

\* the loop of loadConfig over the split fields: trim, keep the non-empty ones
RECURSIVE CollectIDs(_)
CollectIDs(fields) ==
    IF fields = <<>> THEN <<>>
    ELSE LET id == TrimSpace(Head(fields))
         IN  (IF id # <<>> THEN <<id>> ELSE <<>>) \o CollectIDs(Tail(fields))

ParseServiceIDs(raw) == CollectIDs(Split(raw))

----------------------------------------------------------------------------
(* Configuration *)

NoConfig == [APIToken |-> "", ServiceIDs |-> <<>>, ProjectID |-> "", EnvironmentID |-> ""]

ErrTokenRequired   == <<"RAILWAY_API_TOKEN is required">>
ErrServiceRequired == <<"SERVICE_IDS is required">>
ErrServiceEmpty    == <<"SERVICE_IDS must contain at least one service ID">>
ErrProjectRequired == <<"PROJECT_ID (or RAILWAY_PROJECT_ID) is required">>
ErrEnvRequired     == <<"ENVIRONMENT_ID (or RAILWAY_ENVIRONMENT_ID) is required">>

\* Variant of FirstNonEmpty that prefers the fallback variable.
FirstNonEmptySwapped(a, b) == IF b = "" THEN a ELSE b

FirstNonEmpty(a, b) == IF a = "" THEN b ELSE a

\* Variant of loadConfig without the check of the token.
loadConfigNoTokenCheck(e) ==
    LET token         == e.RAILWAY_API_TOKEN
        raw           == e.SERVICE_IDS
        serviceIDs    == ParseServiceIDs(raw)
        projectID     == FirstNonEmpty(e.PROJECT_ID, e.RAILWAY_PROJECT_ID)
        environmentID == FirstNonEmpty(e.ENVIRONMENT_ID, e.RAILWAY_ENVIRONMENT_ID)
    IN  IF raw = <<>> THEN [cfg |-> NoConfig, err |-> ErrServiceRequired]
        ELSE IF Len(serviceIDs) = 0 THEN [cfg |-> NoConfig, err |-> ErrServiceEmpty]
        ELSE IF projectID = "" THEN [cfg |-> NoConfig, err |-> ErrProjectRequired]
        ELSE IF environmentID = "" THEN [cfg |-> NoConfig, err |-> ErrEnvRequired]
        ELSE [cfg |-> [APIToken      |-> token,
                       ServiceIDs    |-> serviceIDs,
                       ProjectID     |-> projectID,
                       EnvironmentID |-> environmentID],
              err |-> <<>>]

loadConfig(e) ==
    LET token         == e.RAILWAY_API_TOKEN
        raw           == e.SERVICE_IDS
        serviceIDs    == ParseServiceIDs(raw)
        projectID     == FirstNonEmpty(e.PROJECT_ID, e.RAILWAY_PROJECT_ID)
        environmentID == FirstNonEmpty(e.ENVIRONMENT_ID, e.RAILWAY_ENVIRONMENT_ID)
    IN  IF token = "" THEN [cfg |-> NoConfig, err |-> ErrTokenRequired]
        ELSE IF raw = <<>> THEN [cfg |-> NoConfig, err |-> ErrServiceRequired]
        ELSE IF Len(serviceIDs) = 0 THEN [cfg |-> NoConfig, err |-> ErrServiceEmpty]
        ELSE IF projectID = "" THEN [cfg |-> NoConfig, err |-> ErrProjectRequired]
        ELSE IF environmentID = "" THEN [cfg |-> NoConfig, err |-> ErrEnvRequired]
        ELSE [cfg |-> [APIToken      |-> token,
                       ServiceIDs    |-> serviceIDs,
                       ProjectID     |-> projectID,
                       EnvironmentID |-> environmentID],
              err |-> <<>>]

----------------------------------------------------------------------------
(* The remote side: what client.Do can return for one request *)

StatusOK == 200

Statuses == {StatusOK, 201, 500}

Itoa(n) == CASE n = 200 -> "200" [] n = 201 -> "201" [] n = 500 -> "500"

ErrMsgs == {"boom", "oops"}

DeploymentIds == {"d1", "d2"}

Nodes == [id : DeploymentIds, status : {"SUCCESS", "FAILED"}]

\* the "data" member of the envelope: missing, null, a non-object value (the
\* acknowledgement of the mutation is the scalar true), or a deployments object
DataValues(nodes, maxEdges) ==
    {[shape |-> "absent"], [shape |-> "null"], [shape |-> "scalar"]}
        \cup {[shape |-> "object", edges |-> es] : es \in SeqsUpTo(nodes, maxEdges)}

Bodies(msgs, nodes, maxErrors, maxEdges) ==
    {[decodable |-> FALSE]}
        \cup {[decodable |-> TRUE, data |-> d, errors |-> er] :
                d \in DataValues(nodes, maxEdges),
                er \in SeqsUpTo([message : msgs], maxErrors)}

ResponsesOf(statuses, msgs, nodes, maxErrors, maxEdges) ==
    {[kind |-> "neterr"]}
        \cup {[kind |-> "http", status |-> st, body |-> b] :
                st \in statuses, b \in Bodies(msgs, nodes, maxErrors, maxEdges)}

----------------------------------------------------------------------------
(* GraphQL call *)

\* the request doGraphQL builds: POST railwayAPI, bearer token, {query, variables}
graphqlRequest(token, query, variables) ==
    [method |-> "POST", auth |-> token, query |-> query, variables |-> variables]

\* Variant of doGraphQL without the check of the HTTP status.
doGraphQLAnyStatus(r) ==
    IF r.kind = "neterr"
    THEN [ok |-> FALSE, err |-> <<"sending request">>]
    ELSE IF ~r.body.decodable
    THEN [ok |-> FALSE, err |-> <<"decoding response">>]
    ELSE IF Len(r.body.errors) > 0
    THEN [ok |-> FALSE, err |-> <<"graphql error", r.body.errors[1].message>>]
    ELSE [ok |-> TRUE, err |-> <<>>, Data |-> r.body.data]

\* Variant of doGraphQL that accepts every 2xx status the responses contain.
doGraphQLAccept2xx(r) ==
    IF r.kind = "neterr"
    THEN [ok |-> FALSE, err |-> <<"sending request">>]
    ELSE IF r.status \notin {StatusOK, 201}
    THEN [ok |-> FALSE, err |-> <<"unexpected status", Itoa(r.status)>>]
    ELSE IF ~r.body.decodable
    THEN [ok |-> FALSE, err |-> <<"decoding response">>]
    ELSE IF Len(r.body.errors) > 0
    THEN [ok |-> FALSE, err |-> <<"graphql error", r.body.errors[1].message>>]
    ELSE [ok |-> TRUE, err |-> <<>>, Data |-> r.body.data]

\* doGraphQL, given what client.Do returned for its request
doGraphQL(r) ==
    IF r.kind = "neterr"
    THEN [ok |-> FALSE, err |-> <<"sending request">>]
    ELSE IF r.status # StatusOK
    THEN [ok |-> FALSE, err |-> <<"unexpected status", Itoa(r.status)>>]
    ELSE IF ~r.body.decodable
    THEN [ok |-> FALSE, err |-> <<"decoding response">>]
    ELSE IF Len(r.body.errors) > 0
    THEN [ok |-> FALSE, err |-> <<"graphql error", r.body.errors[1].message>>]
    ELSE [ok |-> TRUE, err |-> <<>>, Data |-> r.body.data]

\* json.Unmarshal(resp.Data, &data) into deploymentsData
UnmarshalDeployments(d) ==
    CASE d.shape = "object" -> [ok |-> TRUE, Edges |-> d.edges]
      [] d.shape = "null"   -> [ok |-> TRUE, Edges |-> <<>>]
      [] OTHER              -> [ok |-> FALSE, Edges |-> <<>>]

\* what queryLatestDeployment asks of the server: one deployment, status SUCCESS
QueryFilter == [first |-> 1, statusIn |-> {"SUCCESS"}]

\* Variant of getLatestDeployment that takes the last edge of the response.
getLatestDeploymentLastEdge(r) ==
    LET resp == doGraphQL(r)
    IN  IF ~resp.ok
        THEN [id |-> "", err |-> <<"querying deployments">> \o resp.err]
        ELSE LET data == UnmarshalDeployments(resp.Data)
             IN  IF ~data.ok
                 THEN [id |-> "", err |-> <<"parsing deployments">>]
                 ELSE IF Len(data.Edges) = 0
                 THEN [id |-> "", err |-> <<"no active deployment found">>]
                 ELSE [id |-> data.Edges[Len(data.Edges)].id, err |-> <<>>]

\* Variant of getLatestDeployment without the check for an empty edge list.
getLatestDeploymentNoEmptyCheck(r) ==
    LET resp == doGraphQL(r)
    IN  IF ~resp.ok
        THEN [id |-> "", err |-> <<"querying deployments">> \o resp.err]
        ELSE LET data == UnmarshalDeployments(resp.Data)
             IN  IF ~data.ok
                 THEN [id |-> "", err |-> <<"parsing deployments">>]
                 ELSE IF Len(data.Edges) = 0
                 THEN [id |-> "", err |-> <<>>]
                 ELSE [id |-> data.Edges[1].id, err |-> <<>>]

getLatestDeployment(r) ==
    LET resp == doGraphQL(r)
    IN  IF ~resp.ok
        THEN [id |-> "", err |-> <<"querying deployments">> \o resp.err]
        ELSE LET data == UnmarshalDeployments(resp.Data)
             IN  IF ~data.ok
                 THEN [id |-> "", err |-> <<"parsing deployments">>]
                 ELSE IF Len(data.Edges) = 0
                 THEN [id |-> "", err |-> <<"no active deployment found">>]
                 ELSE [id |-> data.Edges[1].id, err |-> <<>>]

\* Variant of restartDeployment that drops the error of the call.
restartDeploymentSwallow(r) == <<>>

restartDeployment(r) ==
    LET resp == doGraphQL(r)
    IN  IF ~resp.ok THEN <<"restarting deployment">> \o resp.err ELSE <<>>

----------------------------------------------------------------------------
(* Inputs *)

ServiceChars == {"a", "b"}

RECURSIVE JoinComma(_)
JoinComma(ids) ==
    IF ids = <<>> THEN <<>>
    ELSE IF Len(ids) = 1 THEN Head(ids)
    ELSE Head(ids) \o <<Comma>> \o JoinComma(Tail(ids))

\* SERVICE_IDS="a, b ,,c"
ExampleRaw == <<"a", ",", " ", "b", " ", ",", ",", "c">>

\* SERVICE_IDS=" ,\t"
BlankRaw == <<" ", ",", "\t">>

RunLists == SeqsUpTo({<<c>> : c \in ServiceChars}, MaxServices)

RunRaws == {JoinComma(l) : l \in RunLists} \cup {ExampleRaw, BlankRaw}

ParseRaws == SeqsUpTo(ServiceChars \cup {Comma, " "}, MaxRawLen) \cup {ExampleRaw, BlankRaw}

Envs(raws) ==
    [RAILWAY_API_TOKEN      : {"", "tok"},
     SERVICE_IDS            : raws,
     PROJECT_ID             : {"", "p1"},
     RAILWAY_PROJECT_ID     : {"", "p2"},
     ENVIRONMENT_ID         : {"", "e1"},
     RAILWAY_ENVIRONMENT_ID : {"", "e2"}]

\* The run specification takes the project id from PROJECT_ID and the environment id
\* from the platform-provided RAILWAY_ENVIRONMENT_ID; the loading specification
\* ranges over all combinations of the six variables.
RunEnvs ==
    {e \in Envs(RunRaws) : e.RAILWAY_PROJECT_ID = "" /\ e.ENVIRONMENT_ID = ""}

LoadEnvs == Envs(ParseRaws)

\* one service, everything set: the environment of the single-call specification
CallEnvs ==
    {e \in Envs({<<"a">>}) :
        /\ e.RAILWAY_API_TOKEN # ""
        /\ e.PROJECT_ID # "" /\ e.RAILWAY_PROJECT_ID = ""
        /\ e.ENVIRONMENT_ID = "" /\ e.RAILWAY_ENVIRONMENT_ID # ""}

\* the deployments of the single-call specification: d1 succeeded, d2 did not
CallNodes == {n \in Nodes : n.id = "d1" <=> n.status = "SUCCESS"}

\* every response within the bounds, for the single-call specification
Responses == ResponsesOf(Statuses, ErrMsgs, CallNodes, MaxErrors, MaxEdges)

OneEdge(id, status) == [shape |-> "object", edges |-> <<[id |-> id, status |-> status]>>]

HttpResponse(status, data, errors) ==
    [kind |-> "http", status |-> status,
     body |-> [decodable |-> TRUE, data |-> data, errors |-> errors]]

\* One response of each kind for the run specification: no answer, a 500 and a
\* GraphQL error whose bodies would otherwise resolve, an undecodable body, the
\* mutation's acknowledgement, an empty edge list, and two resolved deployments.
RunResponses ==
    {[kind |-> "neterr"],
     HttpResponse(500, OneEdge("d1", "SUCCESS"), <<>>),
     [kind |-> "http", status |-> StatusOK, body |-> [decodable |-> FALSE]],
     HttpResponse(StatusOK, OneEdge("d1", "SUCCESS"), <<[message |-> "boom"]>>),
     HttpResponse(StatusOK, [shape |-> "scalar"], <<>>),
     HttpResponse(StatusOK, [shape |-> "object", edges |-> <<>>], <<>>),
     HttpResponse(StatusOK, OneEdge("d1", "SUCCESS"), <<>>),
     HttpResponse(StatusOK, OneEdge("d2", "FAILED"), <<>>)}

----------------------------------------------------------------------------
(* main *)

NumServices == Len(cfg.ServiceIDs)

resolveRequest(serviceID) ==
    graphqlRequest(cfg.APIToken, "queryLatestDeployment",
                   [projectId     |-> cfg.ProjectID,
                    environmentId |-> cfg.EnvironmentID,
                    serviceId     |-> serviceID])

\* Variant of restartRequest that keeps sending the id of the first mutation of the run.
restartRequestCached(id) ==
    LET earlier == {k \in 1..Len(calls) : calls[k].req.query = "mutationRestart"}
        first   == CHOOSE k \in earlier : \A m \in earlier : k <= m
    IN  graphqlRequest(cfg.APIToken, "mutationRestart",
                       [id |-> IF earlier = {} THEN id ELSE calls[first].req.variables.id])

restartRequest(id) ==
    graphqlRequest(cfg.APIToken, "mutationRestart", [id |-> id])

InitWith(envs) ==
    /\ env \in envs
    /\ pc = "start"
    /\ cfg = NoConfig
    /\ cfgErr = <<>>
    /\ idx = 1
    /\ deploymentID = ""
    /\ succeeded = 0
    /\ failed = 0
    /\ log = <<>>
    /\ calls = <<>>
    /\ resps = <<>>
    /\ exitCode = 0

Init == InitWith(RunEnvs)

\* main up to the loop: banner, loadConfig, configuration error or targeting line
LoadConfig ==
    /\ pc = "start"
    /\ LET res == loadConfig(env)
       IN  /\ cfg' = res.cfg
           /\ cfgErr' = res.err
           /\ IF res.err # <<>>
              THEN /\ log' = log \o <<[stream |-> "stdout", kind |-> "banner"],
                                      [stream |-> "stderr", kind |-> "configError",
                                       cause |-> res.err]>>
                   /\ exitCode' = 1
                   /\ pc' = "done"
              ELSE /\ log' = log \o <<[stream |-> "stdout", kind |-> "banner"],
                                      [stream |-> "stdout", kind |-> "targeting",
                                       count |-> Len(res.cfg.ServiceIDs),
                                       project |-> res.cfg.ProjectID]>>
                   /\ exitCode' = exitCode
                   /\ pc' = "loop"
    /\ UNCHANGED <<env, idx, deploymentID, succeeded, failed, calls, resps>>

\* Variant of BeginService that walks the list from its end.
BeginServiceReversed ==
    /\ pc = "loop"
    /\ idx <= NumServices
    /\ LET serviceID == cfg.ServiceIDs[NumServices + 1 - idx]
       IN  /\ log' = Append(log, [stream |-> "stdout", kind |-> "fetching",
                                  service |-> serviceID])
           /\ calls' = Append(calls, [pos |-> idx, after |-> Len(log) + 1,
                                      req |-> resolveRequest(serviceID)])
    /\ pc' = "resolving"
    /\ UNCHANGED <<env, cfg, cfgErr, idx, deploymentID, succeeded, failed, resps, exitCode>>

\* loop head: next service id, "fetching" line, the query is handed to client.Do
BeginService ==
    /\ pc = "loop"
    /\ idx <= NumServices
    /\ LET serviceID == cfg.ServiceIDs[idx]
       IN  /\ log' = Append(log, [stream |-> "stdout", kind |-> "fetching",
                                  service |-> serviceID])
           /\ calls' = Append(calls, [pos |-> idx, after |-> Len(log) + 1,
                                      req |-> resolveRequest(serviceID)])
    /\ pc' = "resolving"
    /\ UNCHANGED <<env, cfg, cfgErr, idx, deploymentID, succeeded, failed, resps, exitCode>>

\* Variant of ResolveReturn whose failure branch leaves the loop (break for continue).
ResolveReturnAbort(r) ==
    /\ pc = "resolving"
    /\ resps' = Append(resps, r)
    /\ LET serviceID == cfg.ServiceIDs[idx]
           res       == getLatestDeployment(r)
       IN  IF res.err # <<>>
           THEN /\ log' = Append(log, [stream |-> "stderr", kind |-> "failure",
                                       service |-> serviceID, cause |-> res.err])
                /\ failed' = failed + 1
                /\ idx' = NumServices + 1
                /\ pc' = "loop"
                /\ UNCHANGED <<deploymentID, calls>>
           ELSE /\ deploymentID' = res.id
                /\ log' = Append(log, [stream |-> "stdout", kind |-> "restarting",
                                       service |-> serviceID, deployment |-> res.id])
                /\ calls' = Append(calls, [pos |-> idx, after |-> Len(log) + 1,
                                           req |-> restartRequest(res.id)])
                /\ pc' = "restarting"
                /\ UNCHANGED <<failed, idx>>
    /\ UNCHANGED <<env, cfg, cfgErr, succeeded, exitCode>>

\* Variant of ResolveReturn that hands the mutation over and moves on to the next
\* service without waiting for its answer.
ResolveReturnAsync(r) ==
    /\ pc = "resolving"
    /\ resps' = Append(resps, r)
    /\ LET serviceID == cfg.ServiceIDs[idx]
           res       == getLatestDeployment(r)
       IN  IF res.err # <<>>
           THEN /\ log' = Append(log, [stream |-> "stderr", kind |-> "failure",
                                       service |-> serviceID, cause |-> res.err])
                /\ failed' = failed + 1
                /\ UNCHANGED <<deploymentID, calls>>
           ELSE /\ deploymentID' = res.id
                /\ log' = Append(log, [stream |-> "stdout", kind |-> "restarting",
                                       service |-> serviceID, deployment |-> res.id])
                /\ calls' = Append(calls, [pos |-> idx, after |-> Len(log) + 1,
                                           req |-> restartRequest(res.id)])
                /\ UNCHANGED failed
    /\ idx' = idx + 1
    /\ pc' = "loop"
    /\ UNCHANGED <<env, cfg, cfgErr, succeeded, exitCode>>

\* Variant of ResolveReturn whose failure branch tries the same service again.
ResolveReturnRetry(r) ==
    /\ pc = "resolving"
    /\ resps' = Append(resps, r)
    /\ LET serviceID == cfg.ServiceIDs[idx]
           res       == getLatestDeployment(r)
       IN  IF res.err # <<>>
           THEN /\ log' = Append(log, [stream |-> "stderr", kind |-> "failure",
                                       service |-> serviceID, cause |-> res.err])
                /\ pc' = "loop"
                /\ UNCHANGED <<failed, idx, deploymentID, calls>>
           ELSE /\ deploymentID' = res.id
                /\ log' = Append(log, [stream |-> "stdout", kind |-> "restarting",
                                       service |-> serviceID, deployment |-> res.id])
                /\ calls' = Append(calls, [pos |-> idx, after |-> Len(log) + 1,
                                           req |-> restartRequest(res.id)])
                /\ pc' = "restarting"
                /\ UNCHANGED <<failed, idx>>
    /\ UNCHANGED <<env, cfg, cfgErr, succeeded, exitCode>>

\* client.Do returns r for the query: rest of getLatestDeployment, then either the
\* failure branch of main or the "restarting" line and the mutation handed to client.Do
ResolveReturn(r) ==
    /\ pc = "resolving"
    /\ resps' = Append(resps, r)
    /\ LET serviceID == cfg.ServiceIDs[idx]
           res       == getLatestDeployment(r)
       IN  IF res.err # <<>>
           THEN /\ log' = Append(log, [stream |-> "stderr", kind |-> "failure",
                                       service |-> serviceID, cause |-> res.err])
                /\ failed' = failed + 1
                /\ idx' = idx + 1
                /\ pc' = "loop"
                /\ UNCHANGED <<deploymentID, calls>>
           ELSE /\ deploymentID' = res.id
                /\ log' = Append(log, [stream |-> "stdout", kind |-> "restarting",
                                       service |-> serviceID, deployment |-> res.id])
                /\ calls' = Append(calls, [pos |-> idx, after |-> Len(log) + 1,
                                           req |-> restartRequest(res.id)])
                /\ pc' = "restarting"
                /\ UNCHANGED <<failed, idx>>
    /\ UNCHANGED <<env, cfg, cfgErr, succeeded, exitCode>>

\* Variant of RestartReturn whose failure branch falls through to the success branch.
RestartReturnFallThrough(r) ==
    /\ pc = "restarting"
    /\ resps' = Append(resps, r)
    /\ LET serviceID == cfg.ServiceIDs[idx]
           err       == restartDeployment(r)
       IN  IF err # <<>>
           THEN /\ log' = log \o <<[stream |-> "stderr", kind |-> "failure",
                                     service |-> serviceID, cause |-> err],
                                    [stream |-> "stdout", kind |-> "success",
                                     service |-> serviceID]>>
                /\ failed' = failed + 1
                /\ succeeded' = succeeded + 1
           ELSE /\ log' = Append(log, [stream |-> "stdout", kind |-> "success",
                                       service |-> serviceID])
                /\ succeeded' = succeeded + 1
                /\ UNCHANGED failed
    /\ idx' = idx + 1
    /\ deploymentID' = ""
    /\ pc' = "loop"
    /\ UNCHANGED <<env, cfg, cfgErr, calls, exitCode>>

\* client.Do returns r for the mutation: rest of restartDeployment, then the failure
\* branch or the success branch of main; the iteration ends
RestartReturn(r) ==
    /\ pc = "restarting"
    /\ resps' = Append(resps, r)
    /\ LET serviceID == cfg.ServiceIDs[idx]
           err       == restartDeployment(r)
       IN  IF err # <<>>
           THEN /\ log' = Append(log, [stream |-> "stderr", kind |-> "failure",
                                       service |-> serviceID, cause |-> err])
                /\ failed' = failed + 1
                /\ UNCHANGED succeeded
           ELSE /\ log' = Append(log, [stream |-> "stdout", kind |-> "success",
                                       service |-> serviceID])
                /\ succeeded' = succeeded + 1
                /\ UNCHANGED failed
    /\ idx' = idx + 1
    /\ deploymentID' = ""
    /\ pc' = "loop"
    /\ UNCHANGED <<env, cfg, cfgErr, calls, exitCode>>

\* Variant of Summary that reports only a run in which something was restarted.
SummaryUnlessAllFailed ==
    /\ pc = "loop"
    /\ idx > NumServices
    /\ succeeded > 0
    /\ log' = Append(log, [stream |-> "stdout", kind |-> "summary",
                           succeeded |-> succeeded, failed |-> failed])
    /\ pc' = "summary"
    /\ UNCHANGED <<env, cfg, cfgErr, idx, deploymentID, succeeded, failed, calls,
                   resps, exitCode>>

\* after the loop: the summary line
Summary ==
    /\ pc = "loop"
    /\ idx > NumServices
    /\ log' = Append(log, [stream |-> "stdout", kind |-> "summary",
                           succeeded |-> succeeded, failed |-> failed])
    /\ pc' = "summary"
    /\ UNCHANGED <<env, cfg, cfgErr, idx, deploymentID, succeeded, failed, calls,
                   resps, exitCode>>

\* Variant of Exit that fails the run only when most services failed.
ExitMajority ==
    /\ pc = "summary"
    /\ exitCode' = IF failed > succeeded THEN 1 ELSE 0
    /\ pc' = "done"
    /\ UNCHANGED <<env, cfg, cfgErr, idx, deploymentID, succeeded, failed, log, calls,
                   resps>>

\* end of main: os.Exit(1) if failed > 0, else return
Exit ==
    /\ pc = "summary"
    /\ exitCode' = IF failed > 0 THEN 1 ELSE 0
    /\ pc' = "done"
    /\ UNCHANGED <<env, cfg, cfgErr, idx, deploymentID, succeeded, failed, log, calls,
                   resps>>

NextWith(responses) ==
    \/ LoadConfig
    \/ BeginService
    \/ \E r \in responses : ResolveReturn(r)
    \/ \E r \in responses : RestartReturn(r)
    \/ Summary
    \/ Exit

Next == NextWith(RunResponses)

\* a whole run, over the run environments and the run responses
Spec == Init /\ [][Next]_vars

\* A whole run that keeps going: main is the only goroutine and never waits for
\* anything but client.Do, whose 30-second timeout makes every call return.
SpecFair == Init /\ [][Next]_vars /\ WF_vars(Next)

\* configuration loading alone, over every combination of the six variables
InitLoad == InitWith(LoadEnvs)

SpecLoad == InitLoad /\ [][LoadConfig]_vars

\* a run over one service, over every response within the bounds
InitCall == InitWith(CallEnvs)

NextCall == NextWith(Responses)

SpecCall == InitCall /\ [][NextCall]_vars

----------------------------------------------------------------------------
(* Vocabulary of the properties *)

IsResolve(c) == c.req.query = "queryLatestDeployment"

IsRestart(c) == c.req.query = "mutationRestart"

\* the remote call answered by r succeeded: sent, 200, decodable, no errors
CallOK(r) ==
    /\ r.kind = "http"
    /\ r.status = 200
    /\ r.body.decodable
    /\ r.body.errors = <<>>

\* the resolve query answered by r returned at least one deployment edge
ResolveOK(r) ==
    /\ CallOK(r)
    /\ r.body.data.shape = "object"
    /\ r.body.data.edges # <<>>

\* loadConfig returned a configuration
Loaded == pc # "start" /\ cfgErr = <<>>

\* the loop over a loaded configuration is over
Finished == Loaded /\ pc \in {"summary", "done"}

ResolveCalls == SelectSeq(calls, IsResolve)

ResolvedIDs == [k \in 1..Len(ResolveCalls) |-> ResolveCalls[k].req.variables.serviceId]

IsOutcomeLine(l) == l.kind \in {"success", "failure"}

IsSuccessLine(l) == l.kind = "success"

IsFailureLine(l) == l.kind = "failure"

IsSummaryLine(l) == l.kind = "summary"

OutcomeLines == SelectSeq(log, IsOutcomeLine)

SummaryLines == SelectSeq(log, IsSummaryLine)

IsPrefix(s, t) == Len(s) <= Len(t) /\ \A i \in 1..Len(s) : s[i] = t[i]

\* The entries of a comma-separated string, read off character by character:
\* cur is the entry being read, acc the entries kept so far.
Strip(f) ==
    LET solid == {i \in 1..Len(f) : f[i] \notin WhiteSpace}
    IN  IF solid = {} THEN <<>>
        ELSE SubSeq(f, CHOOSE i \in solid : \A j \in solid : i <= j,
                       CHOOSE i \in solid : \A j \in solid : i >= j)

Keep(acc, cur) == IF Strip(cur) = <<>> THEN acc ELSE Append(acc, Strip(cur))

RECURSIVE Scan(_, _, _)
Scan(s, cur, acc) ==
    IF s = <<>> THEN Keep(acc, cur)
    ELSE IF Head(s) = "," THEN Scan(Tail(s), <<>>, Keep(acc, cur))
    ELSE Scan(Tail(s), Append(cur, Head(s)), acc)

Entries(raw) == Scan(raw, <<>>, <<>>)

\* the call of list position i with the given test, if it was issued
CallsAt(i, Test(_)) == {k \in 1..Len(calls) : calls[k].pos = i /\ Test(calls[k])}

----------------------------------------------------------------------------
(* C1: failure isolation.  Whatever the remote calls return, a resolve query *)
(* is issued for every list position: a position is behind the loop index   *)
(* exactly if its resolve query was issued, and when the loop is over every *)
(* position has had its query, whichever earlier positions failed.          *)
FailureIsolation ==
    Loaded =>
        /\ \A i \in 1..NumServices :
              (i < idx \/ (i = idx /\ pc \in {"resolving", "restarting"}))
                  <=> CallsAt(i, IsResolve) # {}
        /\ Finished => idx = NumServices + 1

\* the first position failed to resolve, the second failed to restart, and the
\* third was still queried
FailureIsolationWitness ==
    /\ pc = "done"
    /\ Loaded
    /\ NumServices = 3
    /\ ~ResolveOK(resps[1])
    /\ \E k \in CallsAt(2, IsRestart) : ~CallOK(resps[k])
    /\ CallsAt(3, IsResolve) # {}

(* C2: count conservation.  Once the summary is written, the success and    *)
(* failure lines, in order, name exactly the configured service ids, one    *)
(* line per list position, and their number is N and is succeeded + failed  *)
(* of the summary.                                                          *)
CountConservation ==
    (cfgErr = <<>> /\ SummaryLines # <<>>) =>
        /\ Len(SummaryLines) = 1
        /\ Len(OutcomeLines) = NumServices
        /\ \A i \in 1..Len(OutcomeLines) : OutcomeLines[i].service = cfg.ServiceIDs[i]
        /\ Len(SelectSeq(log, IsSuccessLine)) + Len(SelectSeq(log, IsFailureLine))
              = NumServices
        /\ SummaryLines[1].succeeded + SummaryLines[1].failed = NumServices

CountConservationWitness ==
    /\ SummaryLines # <<>>
    /\ NumServices = 3
    /\ Len(SelectSeq(log, IsSuccessLine)) = 2
    /\ Len(SelectSeq(log, IsFailureLine)) = 1

(* C3: exit contract.  A run over a loaded configuration exits with 0 if    *)
(* and only if failed is 0, and with 1 as soon as one resolve or one        *)
(* restart failed, however many services succeeded.                         *)
AnyCallFailed ==
    \E k \in 1..Len(resps) :
        IF IsResolve(calls[k]) THEN ~ResolveOK(resps[k]) ELSE ~CallOK(resps[k])

ExitContract ==
    (pc = "done" /\ Loaded) =>
        /\ exitCode \in {0, 1}
        /\ exitCode = 0 <=> failed = 0
        /\ AnyCallFailed => exitCode = 1

ExitContractWitness ==
    /\ pc = "done"
    /\ Loaded
    /\ succeeded = 2
    /\ failed = 1
    /\ exitCode = 1

(* C4: order preservation.  The service ids of the resolve queries issued   *)
(* so far are a prefix of the entries of SERVICE_IDS, and all of them, in   *)
(* order and with duplicates, when the loop is over.                        *)
OrderPreservation ==
    Loaded =>
        /\ IsPrefix(ResolvedIDs, Entries(env.SERVICE_IDS))
        /\ \A k \in 1..Len(ResolveCalls) : ResolveCalls[k].pos = k
        /\ Finished => ResolvedIDs = Entries(env.SERVICE_IDS)

\* a list naming the same service twice was queried twice
OrderPreservationWitness ==
    /\ pc = "done"
    /\ Loaded
    /\ Len(ResolvedIDs) = 2
    /\ ResolvedIDs[1] = ResolvedIDs[2]

(* C5: configuration errors are fatal before any network activity.  If the  *)
(* token is empty, SERVICE_IDS has no non-blank entry, or a project or      *)
(* environment id has neither of its two variables set, the run ends with   *)
(* exit code 1 and no HTTP call, and the error written names a field that   *)
(* is missing: the first missing one in the order token, services, project, *)
(* environment.                                                             *)
NoToken == env.RAILWAY_API_TOKEN = ""

NoServices == Entries(env.SERVICE_IDS) = <<>>

NoProject == env.PROJECT_ID = "" /\ env.RAILWAY_PROJECT_ID = ""

NoEnvironment == env.ENVIRONMENT_ID = "" /\ env.RAILWAY_ENVIRONMENT_ID = ""

ConfigErrorsFatal ==
    pc # "start" =>
        /\ (NoToken \/ NoServices \/ NoProject \/ NoEnvironment) =>
              /\ pc = "done"
              /\ exitCode = 1
              /\ calls = <<>>
              /\ cfgErr # <<>>
              /\ log[Len(log)].kind = "configError"
              /\ log[Len(log)].stream = "stderr"
              /\ log[Len(log)].cause = cfgErr
        /\ NoToken => cfgErr = ErrTokenRequired
        /\ (~NoToken /\ NoServices) => cfgErr \in {ErrServiceRequired, ErrServiceEmpty}
        /\ (~NoToken /\ ~NoServices /\ NoProject) => cfgErr = ErrProjectRequired
        /\ (~NoToken /\ ~NoServices /\ ~NoProject /\ NoEnvironment) => cfgErr = ErrEnvRequired

\* only the token is missing
ConfigErrorsFatalWitness ==
    /\ pc = "done"
    /\ NoToken
    /\ ~NoServices
    /\ ~NoProject
    /\ ~NoEnvironment
    /\ cfgErr = ErrTokenRequired

(* C6: SERVICE_IDS parsing.  The parsed list is the entries of the string   *)
(* between the commas, each with its surrounding white space removed, the   *)
(* empty ones dropped, in their order; "a, b ,,c" gives a, b, c.  Loading   *)
(* succeeds only if an entry remains, so no loaded service id is empty or   *)
(* blank.                                                                   *)
ExampleIDs == << <<"a">>, <<"b">>, <<"c">> >>

ServiceIDsParsing ==
    pc # "start" =>
        /\ Loaded =>
              /\ cfg.ServiceIDs = Entries(env.SERVICE_IDS)
              /\ cfg.ServiceIDs # <<>>
              /\ \A i \in 1..NumServices :
                    LET id == cfg.ServiceIDs[i]
                    IN  /\ id # <<>>
                        /\ id[1] \notin WhiteSpace
                        /\ id[Len(id)] \notin WhiteSpace
                        /\ \A j \in 1..Len(id) : id[j] # ","
        /\ (~NoToken /\ ~NoProject /\ ~NoEnvironment) =>
              (Loaded <=> Entries(env.SERVICE_IDS) # <<>>)
        /\ (Loaded /\ env.SERVICE_IDS = ExampleRaw) => cfg.ServiceIDs = ExampleIDs

ServiceIDsParsingWitness ==
    /\ Loaded
    /\ env.SERVICE_IDS = ExampleRaw
    /\ cfg.ServiceIDs = ExampleIDs

(* C7: empty result set.  When the resolve query of a service is answered   *)
(* without transport or GraphQL error but with zero deployment edges, the   *)
(* step adds 1 to failed, leaves succeeded alone, writes the failure line   *)
(* with the cause "no active deployment found", issues no restart mutation  *)
(* and moves on to the next list position.                                  *)
EmptyResult(r) ==
    /\ CallOK(r)
    /\ r.body.data.shape = "object"
    /\ r.body.data.edges = <<>>

EmptyResultIsFailure ==
    [][\A r \in RunResponses :
          (ResolveReturn(r) /\ EmptyResult(r)) =>
              /\ failed' = failed + 1
              /\ succeeded' = succeeded
              /\ calls' = calls
              /\ log' = Append(log, [stream |-> "stderr", kind |-> "failure",
                                     service |-> cfg.ServiceIDs[idx],
                                     cause |-> <<"no active deployment found">>])
              /\ pc' = "loop"
              /\ idx' = idx + 1]_vars

\* the empty answer was just recorded and another service is still to come
EmptyResultWitness ==
    /\ pc = "loop"
    /\ calls # <<>>
    /\ Len(resps) = Len(calls)
    /\ IsResolve(calls[Len(calls)])
    /\ EmptyResult(resps[Len(resps)])
    /\ log[Len(log)].kind = "failure"
    /\ failed = 1
    /\ idx <= NumServices

(* C8: restart GraphQL error.  When the restart mutation of a resolved      *)
(* service is answered with a non-empty errors array, the step adds 1 to    *)
(* failed, leaves succeeded alone, writes the failure line with the         *)
(* reported message and no success line, and leaves everything written and  *)
(* counted for the earlier services as it was.                              *)
GraphQLError(r) ==
    /\ r.kind = "http"
    /\ r.status = 200
    /\ r.body.decodable
    /\ r.body.errors # <<>>

RestartErrorIsFailure ==
    [][\A r \in RunResponses :
          (RestartReturn(r) /\ GraphQLError(r)) =>
              /\ failed' = failed + 1
              /\ succeeded' = succeeded
              /\ calls' = calls
              /\ log' = Append(log, [stream |-> "stderr", kind |-> "failure",
                                     service |-> cfg.ServiceIDs[idx],
                                     cause |-> <<"restarting deployment", "graphql error",
                                                 r.body.errors[1].message>>])]_vars

\* the error of the mutation was just recorded, after a service that succeeded
RestartErrorWitness ==
    /\ pc = "loop"
    /\ calls # <<>>
    /\ Len(resps) = Len(calls)
    /\ IsRestart(calls[Len(calls)])
    /\ GraphQLError(resps[Len(resps)])
    /\ log[Len(log)].kind = "failure"
    /\ succeeded = 1
    /\ failed = 1

(* C9: exact outcome counts.  When the loop is over, succeeded is the       *)
(* number of list positions whose resolve and restart both succeeded and    *)
(* failed the number of positions whose resolve or restart failed, and the  *)
(* summary prints these; with three services of which the second's query    *)
(* is answered 500 and the others succeed, that is 2 and 1, and exit 1.     *)
SucceededPositions ==
    {i \in 1..NumServices :
        /\ \E k \in CallsAt(i, IsResolve) : ResolveOK(resps[k])
        /\ \E k \in CallsAt(i, IsRestart) : CallOK(resps[k])}

FailedPositions ==
    {i \in 1..NumServices :
        \/ \E k \in CallsAt(i, IsResolve) : ~ResolveOK(resps[k])
        \/ \E k \in CallsAt(i, IsRestart) : ~CallOK(resps[k])}

SecondAnswered500 ==
    /\ NumServices = 3
    /\ \E k \in CallsAt(2, IsResolve) : resps[k].kind = "http" /\ resps[k].status = 500
    /\ SucceededPositions = {1, 3}

ExactCounts ==
    Finished =>
        /\ succeeded = Cardinality(SucceededPositions)
        /\ failed = Cardinality(FailedPositions)
        /\ SummaryLines[1].succeeded = Cardinality(SucceededPositions)
        /\ SummaryLines[1].failed = Cardinality(FailedPositions)
        /\ SecondAnswered500 =>
              /\ SummaryLines[1].succeeded = 2
              /\ SummaryLines[1].failed = 1
              /\ pc = "done" => exitCode = 1

ExactCountsWitness ==
    /\ pc = "done"
    /\ Loaded
    /\ SecondAnswered500
    /\ succeeded = 2
    /\ failed = 1
    /\ exitCode = 1

(* C10: call budget, no retry.  Every list position gets at most one        *)
(* resolve query and at most one restart mutation, the mutation exactly     *)
(* when its query resolved a deployment; when the loop is over every        *)
(* position has had exactly one query, the run has issued at most 2 N       *)
(* calls, and 2 N exactly when every query resolved.                        *)
CallBudget ==
    Loaded =>
        /\ \A k \in 1..Len(calls) : calls[k].pos \in 1..NumServices
        /\ \A i \in 1..NumServices :
              /\ Cardinality(CallsAt(i, IsResolve)) <= 1
              /\ Cardinality(CallsAt(i, IsRestart)) <= 1
              /\ CallsAt(i, IsRestart) # {} <=>
                    \E k \in CallsAt(i, IsResolve) : k <= Len(resps) /\ ResolveOK(resps[k])
              /\ Finished => Cardinality(CallsAt(i, IsResolve)) = 1
        /\ Len(calls) <= 2 * NumServices
        /\ Finished =>
              (Len(calls) = 2 * NumServices <=>
                  \A i \in 1..NumServices : \E k \in CallsAt(i, IsResolve) : ResolveOK(resps[k]))

\* one query found nothing and got no mutation, the other's mutation failed and
\* was not repeated
CallBudgetWitness ==
    /\ pc = "done"
    /\ Loaded
    /\ NumServices = 2
    /\ Len(calls) = 3
    /\ failed = 2

(* C11: per-service state machine.  Every list position moves only along    *)
(* pending -> resolving -> (resolve_failed | restarting -> (restart_failed  *)
(* | succeeded)) and never leaves a terminal state; it enters restarting    *)
(* only when its own query resolved a deployment; the "fetching" line is    *)
(* written before the query is issued, the "restarting" line before the     *)
(* mutation, and a "success" line only in the step in which the mutation    *)
(* returned success.                                                        *)
ServiceState(i) ==
    IF i = idx /\ pc = "resolving" THEN "resolving"
    ELSE IF i = idx /\ pc = "restarting" THEN "restarting"
    ELSE IF i >= idx THEN "pending"
    ELSE IF i <= Len(OutcomeLines) /\ OutcomeLines[i].kind = "success" THEN "succeeded"
    ELSE IF CallsAt(i, IsRestart) # {} THEN "restart_failed"
    ELSE "resolve_failed"

ServiceMoves ==
    {<<"pending", "resolving">>,
     <<"resolving", "resolve_failed">>,
     <<"resolving", "restarting">>,
     <<"restarting", "restart_failed">>,
     <<"restarting", "succeeded">>}

ServiceStateMachine ==
    [][Loaded =>
        /\ \A i \in 1..NumServices :
              /\ \/ ServiceState(i)' = ServiceState(i)
                 \/ <<ServiceState(i), ServiceState(i)'>> \in ServiceMoves
              /\ (ServiceState(i) # "restarting" /\ ServiceState(i)' = "restarting") =>
                    \E k \in CallsAt(i, IsResolve) : ResolveOK(resps'[k])
        /\ \A k \in 1..Len(calls') :
              LET c == calls'[k]
              IN  /\ c.after \in 1..Len(log')
                  /\ IsResolve(c) => /\ log'[c.after].kind = "fetching"
                                     /\ log'[c.after].service = c.req.variables.serviceId
                  /\ IsRestart(c) => /\ log'[c.after].kind = "restarting"
                                     /\ log'[c.after].deployment = c.req.variables.id
        /\ Len(SelectSeq(log', IsSuccessLine)) # Len(SelectSeq(log, IsSuccessLine)) =>
              /\ Len(resps') = Len(resps) + 1
              /\ IsRestart(calls[Len(resps')])
              /\ CallOK(resps'[Len(resps')])
              /\ log' = Append(log, [stream |-> "stdout", kind |-> "success",
                                     service |-> cfg.ServiceIDs[idx]])]_vars

\* one position in each of the three terminal states
ServiceStateMachineWitness ==
    /\ pc = "done"
    /\ Loaded
    /\ NumServices = 3
    /\ {ServiceState(i) : i \in 1..3} = {"resolve_failed", "restart_failed", "succeeded"}

(* C12: strictly sequential processing.  At most one remote call is         *)
(* outstanding, and only the call issued last can be; at most one list      *)
(* position is resolving or restarting; and when the query of position      *)
(* i + 1 is issued, every call of position i has been answered and          *)
(* position i is in a terminal state.                                       *)
Outstanding == {k \in 1..Len(calls) : k > Len(resps)}

InProgress == {i \in 1..NumServices : ServiceState(i) \in {"resolving", "restarting"}}

TerminalStates == {"resolve_failed", "restart_failed", "succeeded"}

StrictlySequential ==
    Loaded =>
        /\ Len(resps) <= Len(calls)
        /\ Cardinality(Outstanding) <= 1
        /\ Outstanding # {} <=> pc \in {"resolving", "restarting"}
        /\ Cardinality(InProgress) <= 1
        /\ \A k \in Outstanding : InProgress = {calls[k].pos}
        /\ \A i \in 1..NumServices : \A k \in CallsAt(i, IsResolve) :
              \A j \in 1..(i - 1) :
                  /\ ServiceState(j) \in TerminalStates
                  /\ CallsAt(j, IsResolve) # {}
                  /\ \A m \in 1..Len(calls) : calls[m].pos = j => m < k /\ m <= Len(resps)

\* the second service is being resolved after the first one succeeded
StrictlySequentialWitness ==
    /\ Loaded
    /\ pc = "resolving"
    /\ idx = 2
    /\ ServiceState(1) = "succeeded"
    /\ Outstanding = {3}

(* C13: GraphQL call classification.  A call succeeds exactly if it was     *)
(* sent without transport error, the status is 200, the body decodes as     *)
(* the envelope and the errors array is empty; otherwise it fails with the  *)
(* cause of the first of these four checks that fails, in this order.  A    *)
(* status other than 200, 201 included, fails whatever the body holds, and  *)
(* a non-empty errors array fails with its first message even when data is  *)
(* present.                                                                 *)
CallChecks(r) ==
    <<r.kind = "http",
      r.kind = "http" /\ r.status = 200,
      r.kind = "http" /\ r.body.decodable,
      r.kind = "http" /\ r.body.decodable /\ r.body.errors = <<>> >>

CheckCauses == <<"sending request", "unexpected status", "decoding response", "graphql error">>

FirstFailing(r) ==
    LET failing == {n \in 1..4 : ~CallChecks(r)[n]}
    IN  CHOOSE n \in failing : \A m \in failing : n <= m

\* the line written right after call k was answered
LineAfter(k) == log[calls[k].after + 1]

CallWrapper(c) == IF IsResolve(c) THEN "querying deployments" ELSE "restarting deployment"

CallClassification ==
    \A k \in 1..Len(resps) :
        LET r    == resps[k]
            line == LineAfter(k)
            sane == \A n \in 1..4 : CallChecks(r)[n]
        IN  /\ sane <=> ~(line.kind = "failure" /\ line.cause[1] = CallWrapper(calls[k]))
            /\ sane <=> CallOK(r)
            /\ ~sane =>
                  /\ line.cause[2] = CheckCauses[FirstFailing(r)]
                  /\ FirstFailing(r) = 4 =>
                        line.cause = <<CallWrapper(calls[k]), "graphql error",
                                       r.body.errors[1].message>>
            /\ (sane /\ IsRestart(calls[k])) => line.kind = "success"
            /\ (sane /\ IsResolve(calls[k])) =>
                  \/ line.kind = "restarting"
                  \/ /\ line.kind = "failure"
                     /\ line.cause \in {<<"parsing deployments">>,
                                        <<"no active deployment found">>}

\* the mutation was answered 200 with two errors and with data: the first message
\* is the cause
CallClassificationWitness ==
    /\ Len(resps) = 2
    /\ resps[2].kind = "http"
    /\ resps[2].status = 200
    /\ resps[2].body.decodable
    /\ resps[2].body.errors = <<[message |-> "oops"], [message |-> "boom"]>>
    /\ resps[2].body.data.shape = "object"
    /\ LineAfter(2).cause = <<"restarting deployment", "graphql error", "oops">>

(* C14: deployment-id provenance.  Every restart mutation follows directly  *)
(* on the resolve query of the same list position, that query resolved a    *)
(* deployment, and the mutation carries exactly the id that query returned  *)
(* (the one the "restarting" line names): never an id of the               *)
(* configuration, of another position or of an earlier iteration.           *)
ReturnedID(r) == r.body.data.edges[1].id

ConfiguredStrings ==
    {env.RAILWAY_API_TOKEN, env.PROJECT_ID, env.RAILWAY_PROJECT_ID,
     env.ENVIRONMENT_ID, env.RAILWAY_ENVIRONMENT_ID}

DeploymentIDProvenance ==
    \A k \in 1..Len(calls) :
        IsRestart(calls[k]) =>
            /\ k >= 2
            /\ IsResolve(calls[k - 1])
            /\ calls[k - 1].pos = calls[k].pos
            /\ calls[k - 1].req.variables.serviceId = cfg.ServiceIDs[calls[k].pos]
            /\ ResolveOK(resps[k - 1])
            /\ calls[k].req.variables.id = ReturnedID(resps[k - 1])
            /\ calls[k].req.variables.id \notin ConfiguredStrings
            /\ log[calls[k].after].deployment = ReturnedID(resps[k - 1])
            /\ (pc = "restarting" /\ k = Len(calls)) => deploymentID = ReturnedID(resps[k - 1])

\* two iterations resolved different deployments and each restarted its own
DeploymentIDProvenanceWitness ==
    /\ pc = "done"
    /\ Len(calls) = 4
    /\ ReturnedID(resps[1]) = "d1"
    /\ ReturnedID(resps[3]) = "d2"
    /\ calls[2].req.variables.id = "d1"
    /\ calls[4].req.variables.id = "d2"

(* C15: termination and summary.  Given that every remote call returns, a   *)
(* run over a loaded configuration always reaches its end; the summary is   *)
(* written exactly once, only when every list position is in a terminal     *)
(* state and no call is outstanding, also when every service failed, and    *)
(* the exit code is set only after the summary.                             *)
SummaryDiscipline ==
    Loaded =>
        /\ Len(SummaryLines) <= 1
        /\ SummaryLines # <<>> <=> pc \in {"summary", "done"}
        /\ SummaryLines # <<>> =>
              /\ \A i \in 1..NumServices : ServiceState(i) \in TerminalStates
              /\ Outstanding = {}
              /\ log[Len(log)].kind = "summary"
        /\ exitCode # 0 => (pc = "done" /\ SummaryLines # <<>>)

TerminationAndSummary ==
    /\ Loaded ~> (pc = "done")
    /\ []SummaryDiscipline

\* a run in which every service failed ended with its summary
TerminationAndSummaryWitness ==
    /\ pc = "done"
    /\ Loaded
    /\ NumServices = 3
    /\ succeeded = 0
    /\ failed = 3
    /\ Len(SummaryLines) = 1
    /\ exitCode = 1

(* C16: project and environment fallback.  The configured project id is     *)
(* PROJECT_ID whenever that is non-empty, whatever RAILWAY_PROJECT_ID       *)
(* holds, and RAILWAY_PROJECT_ID exactly when PROJECT_ID is empty; loading  *)
(* fails for the project only when both are empty.  The same holds for      *)
(* ENVIRONMENT_ID and RAILWAY_ENVIRONMENT_ID.  A loaded configuration has   *)
(* all four fields non-empty.                                               *)
FallbackRule ==
    pc # "start" =>
        /\ Loaded =>
              /\ env.PROJECT_ID # "" => cfg.ProjectID = env.PROJECT_ID
              /\ env.PROJECT_ID = "" => cfg.ProjectID = env.RAILWAY_PROJECT_ID
              /\ env.ENVIRONMENT_ID # "" => cfg.EnvironmentID = env.ENVIRONMENT_ID
              /\ env.ENVIRONMENT_ID = "" => cfg.EnvironmentID = env.RAILWAY_ENVIRONMENT_ID
              /\ cfg.APIToken # ""
              /\ cfg.ServiceIDs # <<>>
              /\ cfg.ProjectID # ""
              /\ cfg.EnvironmentID # ""
        /\ cfgErr = ErrProjectRequired => NoProject
        /\ cfgErr = ErrEnvRequired => NoEnvironment
        /\ (~NoToken /\ ~NoServices) => (Loaded <=> (~NoProject /\ ~NoEnvironment))

\* both project variables are set and PROJECT_ID wins; the environment id comes
\* from the fallback
FallbackRuleWitness ==
    /\ Loaded
    /\ env.PROJECT_ID = "p1"
    /\ env.RAILWAY_PROJECT_ID = "p2"
    /\ cfg.ProjectID = "p1"
    /\ env.ENVIRONMENT_ID = ""
    /\ cfg.EnvironmentID = "e2"

(* C17: resolve restarts only SUCCESS deployments.  As stated: whenever a   *)
(* restart mutation is issued, the restarted id is that of a deployment     *)
(* whose status in the response is SUCCESS, and of the first edge.          *)
RestartCalls == {k \in 1..Len(calls) : IsRestart(calls[k])}

EdgesBefore(k) == resps[k - 1].body.data.edges

OnlySuccessRestarted ==
    \A k \in RestartCalls :
        /\ calls[k].req.variables.id = EdgesBefore(k)[1].id
        /\ \A n \in 1..Len(EdgesBefore(k)) :
              EdgesBefore(k)[n].id = calls[k].req.variables.id =>
                  EdgesBefore(k)[n].status = "SUCCESS"

(* C17 as the program has it: the restarted id is the id of the first edge  *)
(* of the response, whatever status that edge carries and whatever edges    *)
(* follow it; it is the id of a SUCCESS deployment whenever the server      *)
(* honoured the query's filter (at most one edge, status SUCCESS).          *)
HonoursFilter(r) ==
    /\ Len(r.body.data.edges) <= QueryFilter.first
    /\ \A n \in 1..Len(r.body.data.edges) :
          r.body.data.edges[n].status \in QueryFilter.statusIn

FirstEdgeRestarted ==
    \A k \in RestartCalls :
        /\ ResolveOK(resps[k - 1])
        /\ calls[k].req.variables.id = EdgesBefore(k)[1].id
        /\ HonoursFilter(resps[k - 1]) =>
              \A n \in 1..Len(EdgesBefore(k)) :
                  EdgesBefore(k)[n].id = calls[k].req.variables.id =>
                      EdgesBefore(k)[n].status = "SUCCESS"

\* the response held two edges and the first one was restarted
FirstEdgeRestartedWitness ==
    /\ RestartCalls = {2}
    /\ Len(EdgesBefore(2)) = 2
    /\ EdgesBefore(2)[1].id = "d1"
    /\ EdgesBefore(2)[2].id = "d2"
    /\ calls[2].req.variables.id = "d1"

(* C18: counter discipline.  succeeded and failed start at 0 and never      *)
(* decrease; the step that ends a loop iteration adds exactly 1 to exactly  *)
(* one of them and no other step changes them; so with k list positions in  *)
(* a terminal state succeeded + failed = k, and neither exceeds N.          *)
TerminalCount == Cardinality({i \in 1..NumServices : ServiceState(i) \in TerminalStates})

CountersMatch ==
    Loaded =>
        /\ succeeded + failed = TerminalCount
        /\ succeeded \in 0..NumServices
        /\ failed \in 0..NumServices

CounterStep ==
    /\ succeeded' >= succeeded
    /\ failed' >= failed
    /\ idx' # idx =>
          /\ idx' = idx + 1
          /\ \/ succeeded' = succeeded + 1 /\ failed' = failed
             \/ succeeded' = succeeded /\ failed' = failed + 1
    /\ idx' = idx => (succeeded' = succeeded /\ failed' = failed)

CounterDiscipline ==
    /\ succeeded = 0 /\ failed = 0
    /\ []CountersMatch
    /\ [][CounterStep]_vars

\* two of three services are done, one each way
CounterDisciplineWitness ==
    /\ Loaded
    /\ pc = "loop"
    /\ NumServices = 3
    /\ idx = 3
    /\ succeeded = 1
    /\ failed = 1

====
